---- MODULE Spec2Model ----
(***************************************************************************)
(* Model of utils.py of dnn-mode-connectivity: the cyclic learning-rate    *)
(* schedule, adjust_learning_rate, the train and test loops and the        *)
(* batch-normalization recalibration update_bn.                            *)
(*                                                                         *)
(* Python floats are modelled as exact rationals [num, den] in lowest      *)
(* terms with den > 0, so that equal values are equal records.  A batch is *)
(* the sequence of the activations of its samples (one channel); a         *)
(* batch-normalization submodule sees those activations.                   *)
(***************************************************************************)
EXTENDS Integers, Sequences, FiniteSets, TLC

(* ---------------------------- bounds ----------------------------------- *)
NumModules == 2
MaxSamples == 8
MaxBatchSize == 3
MaxLoopBatches == 2
MaxValue == 1
NumGroups == 2
MaxCalls == 2
MaxEpoch == 3
MaxCycle == 3
MaxAlpha == 2
Grid == 4

(* ------------------------ rational arithmetic -------------------------- *)
Abs(x) == IF x < 0 THEN -x ELSE x

RECURSIVE GCD(_, _)
GCD(a, b) == IF b = 0 THEN a ELSE GCD(b, a % b)

Rat(n, d) ==
    LET g == GCD(Abs(n), d)
    IN  [num |-> n \div g, den |-> d \div g]

RAdd(a, b) == Rat(a.num * b.den + b.num * a.den, a.den * b.den)
RSub(a, b) == Rat(a.num * b.den - b.num * a.den, a.den * b.den)
RMul(a, b) == Rat(a.num * b.num, a.den * b.den)
RLess(a, b) == a.num * b.den < b.num * a.den
RLeq(a, b) == a.num * b.den <= b.num * a.den

Zero == Rat(0, 1)
One == Rat(1, 1)
Two == Rat(2, 1)
Half == Rat(1, 2)

(* ------------------------------ state ---------------------------------- *)
VARIABLES
    pc,            \* position of the running call
    kind,          \* class of every submodule of the model
    training,      \* model.training
    momentum,      \* module.momentum of every submodule
    running_mean,  \* module.running_mean
    running_var,   \* module.running_var
    params,        \* number of optimizer steps applied to the parameters
    model_dev,     \* next(model.parameters()).device
    optimizer,     \* optimizer.param_groups
    loader_len,    \* number of batches the loader yields
    fetched,       \* number of batches fetched from the loader so far
    batch,         \* sample_input of the current iteration
    batch_dev,     \* device of sample_input
    momenta,       \* update_bn: the snapshot dictionary
    num_samples,   \* update_bn: samples replayed so far
    lr_schedule,   \* train: the schedule argument, or "none"
    epoch,         \* cyclic_learning_rate arguments
    cycle,
    alpha_1,
    alpha_2,
    i_grid,        \* schedule argument i, as the fraction i_grid / Grid
    lr,            \* lr passed to adjust_learning_rate
    ret,           \* value returned by the last call
    calls,         \* number of calls made by the driver
    pre,           \* history: state at the entry of the running call
    seen,          \* history: statistics of the batches fetched so far
    log            \* history: the steps performed by the running call

vars == <<pc, kind, training, momentum, running_mean, running_var, params,
          model_dev, optimizer, loader_len, fetched, batch, batch_dev,
          momenta, num_samples, lr_schedule, epoch, cycle, alpha_1, alpha_2,
          i_grid, lr, ret, calls, pre, seen, log>>

Modules == 1 .. NumModules
Kinds == {"torch_bn", "curve_bn", "other"}
Devices == {"cpu", "cuda"}
Values == 0 .. MaxValue
BatchSizes == 2 .. MaxBatchSize
Batches ==
    {s \in UNION {[1 .. b -> Values] : b \in BatchSizes} :
        \A i \in 1 .. Len(s) - 1 : s[i] <= s[i + 1]}
LoopBatches == {<<0, 1>>, <<1, 1>>}
DefaultMomentum == Rat(1, 10)
TrainedMean == Rat(5, 1)
TrainedVar == Rat(3, 1)

(* --------------------- batch-normalization helpers --------------------- *)
isbatchnorm(m) == kind[m] = "torch_bn" \/ kind[m] = "curve_bn"

check_bn == \E m \in Modules : isbatchnorm(m)

BNModules == {m \in Modules : isbatchnorm(m)}

reset_bn(stat, value) ==
    [m \in Modules |-> IF isbatchnorm(m) THEN value ELSE stat[m]]

_get_momenta == [m \in BNModules |-> momentum[m]]

_set_momenta(snapshot) ==
    [m \in Modules |-> IF isbatchnorm(m) THEN snapshot[m] ELSE momentum[m]]

RECURSIVE SumSeq(_, _)
SumSeq(s, k) == IF k = 0 THEN 0 ELSE s[k] + SumSeq(s, k - 1)

RECURSIVE SumSqSeq(_, _)
SumSqSeq(s, k) == IF k = 0 THEN 0 ELSE s[k] * s[k] + SumSqSeq(s, k - 1)

BatchMean(b) == Rat(SumSeq(b, Len(b)), Len(b))

BatchVar(b) ==
    LET n == Len(b)
        s == SumSeq(b, n)
        q == SumSqSeq(b, n)
    IN  Rat(n * q - s * s, n * (n - 1))

EMA(mom, running, stat) ==
    RAdd(RMul(RSub(One, mom), running), RMul(mom, stat))

\* forward pass of the model on batch b; only the first upto submodules run
ForwardMean(b, upto) ==
    [m \in Modules |->
        IF isbatchnorm(m) /\ training /\ m <= upto
        THEN EMA(momentum[m], running_mean[m], BatchMean(b))
        ELSE running_mean[m]]

ForwardVar(b, upto) ==
    [m \in Modules |->
        IF isbatchnorm(m) /\ training /\ m <= upto
        THEN EMA(momentum[m], running_var[m], BatchVar(b))
        ELSE running_var[m]]

Snapshot ==
    [pc |-> pc, lr |-> lr, training |-> training, momentum |-> momentum,
     running_mean |-> running_mean, running_var |-> running_var,
     params |-> params, optimizer |-> optimizer]

NoSeen == [n |-> 0, sum |-> 0, sq |-> 0, wvar |-> Zero]

Observe(b) ==
    [n |-> seen.n + Len(b),
     sum |-> seen.sum + SumSeq(b, Len(b)),
     sq |-> seen.sq + SumSqSeq(b, Len(b)),
     wvar |-> RAdd(seen.wvar, RMul(Rat(Len(b), 1), BatchVar(b)))]

(* ------------------------------ update_bn ------------------------------ *)
\* the average weighted per batch instead of per sample
ReplayMomentumPerBatch(batch_size, n) == Rat(1, n + 1)

ReplayMomentum(batch_size, n) == Rat(batch_size, n + batch_size)

\* model.train() placed before the check
UpdateBnReturnEarlyAfterTrain ==
    /\ pc = "update_bn"
    /\ ~check_bn
    /\ training' = TRUE
    /\ pc' = "ub_returned"
    /\ UNCHANGED <<kind, momentum, running_mean, running_var, params,
                   model_dev, optimizer, loader_len, fetched, batch, batch_dev,
                   momenta, num_samples, lr_schedule, epoch, cycle, alpha_1,
                   alpha_2, i_grid, lr, ret, calls, pre, seen, log>>

UpdateBnReturnEarly ==
    /\ pc = "update_bn"
    /\ ~check_bn
    /\ pc' = "ub_returned"
    /\ UNCHANGED <<kind, training, momentum, running_mean, running_var, params,
                   model_dev, optimizer, loader_len, fetched, batch, batch_dev,
                   momenta, num_samples, lr_schedule, epoch, cycle, alpha_1,
                   alpha_2, i_grid, lr, ret, calls, pre, seen, log>>

UpdateBnEnter ==
    /\ pc = "update_bn"
    /\ check_bn
    /\ training' = TRUE
    /\ running_mean' = reset_bn(running_mean, Zero)
    /\ running_var' = reset_bn(running_var, One)
    /\ momenta' = _get_momenta
    /\ num_samples' = 0
    /\ pc' = "ub_loop"
    /\ UNCHANGED <<kind, momentum, params, model_dev, optimizer, loader_len,
                   fetched, batch, batch_dev, lr_schedule, epoch, cycle,
                   alpha_1, alpha_2, i_grid, lr, ret, calls, pre, seen, log>>

\* the loader yields one more batch; its dataset holds at most MaxSamples
UpdateBnNextBatch ==
    /\ pc = "ub_loop"
    /\ \E b \in Batches :
          LET batch_size == Len(b)
              mom == ReplayMomentum(batch_size, num_samples)
          IN  /\ seen.n + batch_size <= MaxSamples
              /\ batch' = b
              /\ momentum' = [m \in Modules |->
                                 IF m \in DOMAIN momenta THEN mom
                                 ELSE momentum[m]]
              /\ seen' = Observe(b)
    /\ fetched' = fetched + 1
    /\ pc' = "ub_forward"
    /\ UNCHANGED <<kind, training, running_mean, running_var, params,
                   model_dev, optimizer, loader_len, batch_dev, momenta,
                   num_samples, lr_schedule, epoch, cycle, alpha_1, alpha_2,
                   i_grid, lr, ret, calls, pre, log>>

\* num_samples counts batches instead of samples
UpdateBnForwardCountingBatches ==
    /\ pc = "ub_forward"
    /\ running_mean' = ForwardMean(batch, NumModules)
    /\ running_var' = ForwardVar(batch, NumModules)
    /\ num_samples' = num_samples + 1
    /\ batch' = <<>>
    /\ pc' = "ub_loop"
    /\ UNCHANGED <<kind, training, momentum, params, model_dev, optimizer,
                   loader_len, fetched, batch_dev, momenta, lr_schedule,
                   epoch, cycle, alpha_1, alpha_2, i_grid, lr, ret, calls, pre,
                   seen, log>>

UpdateBnForward ==
    /\ pc = "ub_forward"
    /\ running_mean' = ForwardMean(batch, NumModules)
    /\ running_var' = ForwardVar(batch, NumModules)
    /\ num_samples' = num_samples + Len(batch)
    /\ batch' = <<>>
    /\ pc' = "ub_loop"
    /\ UNCHANGED <<kind, training, momentum, params, model_dev, optimizer,
                   loader_len, fetched, batch_dev, momenta, lr_schedule,
                   epoch, cycle, alpha_1, alpha_2, i_grid, lr, ret, calls, pre,
                   seen, log>>

\* the restore placed in a finally clause
UpdateBnForwardRaisesRestoring ==
    /\ pc = "ub_forward"
    /\ \E upto \in 0 .. NumModules :
          /\ running_mean' = ForwardMean(batch, upto)
          /\ running_var' = ForwardVar(batch, upto)
    /\ momentum' = _set_momenta(momenta)
    /\ pc' = "ub_raised"
    /\ UNCHANGED <<kind, training, params, model_dev, optimizer, loader_len,
                   fetched, batch, batch_dev, momenta, num_samples,
                   lr_schedule, epoch, cycle, alpha_1, alpha_2, i_grid, lr,
                   ret, calls, pre, seen, log>>

\* the forward pass raises after the first upto submodules have run
UpdateBnForwardRaises ==
    /\ pc = "ub_forward"
    /\ \E upto \in 0 .. NumModules :
          /\ running_mean' = ForwardMean(batch, upto)
          /\ running_var' = ForwardVar(batch, upto)
    /\ pc' = "ub_raised"
    /\ UNCHANGED <<kind, training, momentum, params, model_dev, optimizer,
                   loader_len, fetched, batch, batch_dev, momenta,
                   num_samples, lr_schedule, epoch, cycle, alpha_1, alpha_2,
                   i_grid, lr, ret, calls, pre, seen, log>>

\* update_bn without its last line
UpdateBnRestoreSkipped ==
    /\ pc = "ub_loop"
    /\ pc' = "ub_returned"
    /\ UNCHANGED <<kind, training, momentum, running_mean, running_var, params,
                   model_dev, optimizer, loader_len, fetched, batch, batch_dev,
                   momenta, num_samples, lr_schedule, epoch, cycle, alpha_1,
                   alpha_2, i_grid, lr, ret, calls, pre, seen, log>>

\* the loader is exhausted
UpdateBnRestore ==
    /\ pc = "ub_loop"
    /\ momentum' = _set_momenta(momenta)
    /\ pc' = "ub_returned"
    /\ UNCHANGED <<kind, training, running_mean, running_var, params,
                   model_dev, optimizer, loader_len, fetched, batch, batch_dev,
                   momenta, num_samples, lr_schedule, epoch, cycle, alpha_1,
                   alpha_2, i_grid, lr, ret, calls, pre, seen, log>>

InitBN ==
    /\ pc = "update_bn"
    /\ kind \in [Modules -> Kinds]
    /\ training \in BOOLEAN
    /\ momentum = [m \in Modules |->
                       IF isbatchnorm(m) THEN DefaultMomentum ELSE Zero]
    /\ running_mean = [m \in Modules |-> TrainedMean]
    /\ running_var = [m \in Modules |-> TrainedVar]
    /\ params = 0
    /\ model_dev = "cpu"
    /\ optimizer = <<>>
    /\ loader_len = 0
    /\ fetched = 0
    /\ batch = <<>>
    /\ batch_dev = "cpu"
    /\ momenta = <<>>
    /\ num_samples = 0
    /\ lr_schedule = "none"
    /\ epoch = 0
    /\ cycle = 1
    /\ alpha_1 = 0
    /\ alpha_2 = 0
    /\ i_grid = 0
    /\ lr = Zero
    /\ ret = Zero
    /\ calls = 0
    /\ pre = Snapshot
    /\ seen = NoSeen
    /\ log = <<>>

NextBN ==
    \/ UpdateBnReturnEarly
    \/ UpdateBnEnter
    \/ UpdateBnNextBatch
    \/ UpdateBnForward
    \/ UpdateBnForwardRaises
    \/ UpdateBnRestore

SpecBN == InitBN /\ [][NextBN]_vars

(* ------------------------- cyclic_learning_rate ------------------------ *)
\* the schedule without the reduction of epoch modulo cycle
schedule_without_mod(e, c, a1, a2, x) ==
    LET t == Rat(e * x.den + x.num, c * x.den)
        twot == RMul(Two, t)
    IN  IF RLess(t, Half)
        THEN RAdd(RMul(Rat(a1, 1), RSub(One, twot)),
                  RMul(Rat(a2, 1), twot))
        ELSE RAdd(RMul(Rat(a1, 1), RSub(twot, One)),
                  RMul(Rat(a2, 1), RSub(Two, twot)))

\* schedule(x) of cyclic_learning_rate(e, c, a1, a2), x a rational
schedule(e, c, a1, a2, x) ==
    LET t == Rat((e % c) * x.den + x.num, c * x.den)
        twot == RMul(Two, t)
    IN  IF RLess(t, Half)
        THEN RAdd(RMul(Rat(a1, 1), RSub(One, twot)),
                  RMul(Rat(a2, 1), twot))
        ELSE RAdd(RMul(Rat(a1, 1), RSub(twot, One)),
                  RMul(Rat(a2, 1), RSub(Two, twot)))

CyclicLearningRate ==
    /\ pc = "schedule"
    /\ ret' = schedule(epoch, cycle, alpha_1, alpha_2, Rat(i_grid, Grid))
    /\ pc' = "scheduled"
    /\ UNCHANGED <<kind, training, momentum, running_mean, running_var, params,
                   model_dev, optimizer, loader_len, fetched, batch, batch_dev,
                   momenta, num_samples, lr_schedule, epoch, cycle, alpha_1,
                   alpha_2, i_grid, lr, calls, pre, seen, log>>

InitLR ==
    /\ pc = "schedule"
    /\ epoch \in -1 .. MaxEpoch
    /\ cycle \in 1 .. MaxCycle
    /\ alpha_1 \in -1 .. MaxAlpha
    /\ alpha_2 \in -1 .. MaxAlpha
    /\ i_grid \in 0 .. Grid
    /\ kind = [m \in Modules |-> "other"]
    /\ training = FALSE
    /\ momentum = [m \in Modules |-> Zero]
    /\ running_mean = [m \in Modules |-> TrainedMean]
    /\ running_var = [m \in Modules |-> TrainedVar]
    /\ params = 0
    /\ model_dev = "cpu"
    /\ optimizer = <<>>
    /\ loader_len = 0
    /\ fetched = 0
    /\ batch = <<>>
    /\ batch_dev = "cpu"
    /\ momenta = <<>>
    /\ num_samples = 0
    /\ lr_schedule = "none"
    /\ lr = Zero
    /\ ret = Zero
    /\ calls = 0
    /\ pre = Snapshot
    /\ seen = NoSeen
    /\ log = <<>>

NextLR == CyclicLearningRate

SpecLR == InitLR /\ [][NextLR]_vars

(* --------------------------- adjust_learning_rate ---------------------- *)
LRValues == {Rat(-1, 1), Zero, Rat(1, 10)}
AtRest == {"idle", "adjusted"}

\* only the first parameter group is written
adjust_first_group(opt, v) ==
    [g \in DOMAIN opt |-> IF g = 1 THEN [opt[g] EXCEPT !.lr = v] ELSE opt[g]]

adjust_learning_rate(opt, v) ==
    [g \in DOMAIN opt |-> [opt[g] EXCEPT !.lr = v]]

AdjustLearningRate ==
    /\ pc \in AtRest
    /\ calls < MaxCalls
    /\ \E v \in LRValues :
          /\ lr' = v
          /\ optimizer' = adjust_learning_rate(optimizer, v)
          /\ ret' = v
    /\ pre' = Snapshot
    /\ calls' = calls + 1
    /\ pc' = "adjusted"
    /\ UNCHANGED <<kind, training, momentum, running_mean, running_var, params,
                   model_dev, loader_len, fetched, batch, batch_dev, momenta,
                   num_samples, lr_schedule, epoch, cycle, alpha_1, alpha_2,
                   i_grid, seen, log>>

(* --------------------------------- train ------------------------------- *)
LrOf(opt) == [g \in DOMAIN opt |-> opt[g].lr]

Event(op, k) == [op |-> op, i |-> k, lr |-> LrOf(optimizer)]

\* Tensor.to(device) returns a tensor on device and leaves its operand alone
TensorTo(tensor_dev, device) == device

\* (i + 1) / num_iters
ProgressOffByOne(k, num_iters) == Rat(k + 1, num_iters)

\* i / num_iters
Progress(k, num_iters) == Rat(k, num_iters)

CallTrain ==
    /\ pc \in AtRest
    /\ loader_len' \in 0 .. MaxLoopBatches
    /\ lr_schedule' \in {"none", "cyclic"}
    /\ fetched' = 0
    /\ log' = <<>>
    /\ pre' = Snapshot
    /\ calls' = calls + 1
    /\ pc' = "train"
    /\ UNCHANGED <<kind, training, momentum, running_mean, running_var, params,
                   model_dev, optimizer, batch, batch_dev, momenta,
                   num_samples, epoch, cycle, alpha_1, alpha_2, i_grid, lr,
                   ret, seen>>

TrainEnter ==
    /\ pc = "train"
    /\ training' = TRUE
    /\ pc' = "train_loop"
    /\ UNCHANGED <<kind, momentum, running_mean, running_var, params,
                   model_dev, optimizer, loader_len, fetched, batch, batch_dev,
                   momenta, num_samples, lr_schedule, epoch, cycle, alpha_1,
                   alpha_2, i_grid, lr, ret, calls, pre, seen, log>>

TrainNextBatch ==
    /\ pc = "train_loop"
    /\ fetched < loader_len
    /\ batch' \in LoopBatches
    /\ batch_dev' \in Devices
    /\ IF lr_schedule # "none"
       THEN LET v == schedule(epoch, cycle, alpha_1, alpha_2,
                              Progress(fetched, loader_len))
                opt == adjust_learning_rate(optimizer, v)
            IN  /\ lr' = v
                /\ optimizer' = opt
                /\ log' = Append(log, [op |-> "set_lr", i |-> fetched,
                                       lr |-> LrOf(opt)])
       ELSE UNCHANGED <<lr, optimizer, log>>
    /\ fetched' = fetched + 1
    /\ pc' = "train_move"
    /\ UNCHANGED <<kind, training, momentum, running_mean, running_var, params,
                   model_dev, loader_len, momenta, num_samples, lr_schedule,
                   epoch, cycle, alpha_1, alpha_2, i_grid, ret, calls, pre,
                   seen>>

TrainMove ==
    /\ pc = "train_move"
    /\ LET device == model_dev
           moved == TensorTo(batch_dev, device)
       IN  batch_dev' = batch_dev
    /\ pc' = "train_zero_grad"
    /\ UNCHANGED <<kind, training, momentum, running_mean, running_var, params,
                   model_dev, optimizer, loader_len, fetched, batch, momenta,
                   num_samples, lr_schedule, epoch, cycle, alpha_1, alpha_2,
                   i_grid, lr, ret, calls, pre, seen, log>>

TrainZeroGrad ==
    /\ pc = "train_zero_grad"
    /\ log' = Append(log, Event("zero_grad", fetched - 1))
    /\ pc' = "train_forward"
    /\ UNCHANGED <<kind, training, momentum, running_mean, running_var, params,
                   model_dev, optimizer, loader_len, fetched, batch, batch_dev,
                   momenta, num_samples, lr_schedule, epoch, cycle, alpha_1,
                   alpha_2, i_grid, lr, ret, calls, pre, seen>>

TrainForward ==
    /\ pc = "train_forward"
    /\ batch_dev = model_dev
    /\ running_mean' = ForwardMean(batch, NumModules)
    /\ running_var' = ForwardVar(batch, NumModules)
    /\ log' = Append(log, Event("forward", fetched - 1))
    /\ pc' = "train_backward"
    /\ UNCHANGED <<kind, training, momentum, params, model_dev, optimizer,
                   loader_len, fetched, batch, batch_dev, momenta,
                   num_samples, lr_schedule, epoch, cycle, alpha_1, alpha_2,
                   i_grid, lr, ret, calls, pre, seen>>

\* the model's parameters and the input are on different devices
TrainForwardRaises ==
    /\ pc = "train_forward"
    /\ batch_dev # model_dev
    /\ pc' = "train_raised"
    /\ UNCHANGED <<kind, training, momentum, running_mean, running_var, params,
                   model_dev, optimizer, loader_len, fetched, batch, batch_dev,
                   momenta, num_samples, lr_schedule, epoch, cycle, alpha_1,
                   alpha_2, i_grid, lr, ret, calls, pre, seen, log>>

TrainBackward ==
    /\ pc = "train_backward"
    /\ log' = Append(log, Event("backward", fetched - 1))
    /\ pc' = "train_step"
    /\ UNCHANGED <<kind, training, momentum, running_mean, running_var, params,
                   model_dev, optimizer, loader_len, fetched, batch, batch_dev,
                   momenta, num_samples, lr_schedule, epoch, cycle, alpha_1,
                   alpha_2, i_grid, lr, ret, calls, pre, seen>>

TrainStep ==
    /\ pc = "train_step"
    /\ params' = params + 1
    /\ log' = Append(log, Event("step", fetched - 1))
    /\ batch' = <<>>
    /\ pc' = "train_loop"
    /\ UNCHANGED <<kind, training, momentum, running_mean, running_var,
                   model_dev, optimizer, loader_len, fetched, batch_dev,
                   momenta, num_samples, lr_schedule, epoch, cycle, alpha_1,
                   alpha_2, i_grid, lr, ret, calls, pre, seen>>

TrainReturn ==
    /\ pc = "train_loop"
    /\ fetched = loader_len
    /\ pc' = "train_returned"
    /\ UNCHANGED <<kind, training, momentum, running_mean, running_var, params,
                   model_dev, optimizer, loader_len, fetched, batch, batch_dev,
                   momenta, num_samples, lr_schedule, epoch, cycle, alpha_1,
                   alpha_2, i_grid, lr, ret, calls, pre, seen, log>>

\* len(train_loader.dataset) is 0: the division of the metrics raises
TrainReturnRaises ==
    /\ pc = "train_loop"
    /\ fetched = loader_len
    /\ loader_len = 0
    /\ pc' = "train_raised"
    /\ UNCHANGED <<kind, training, momentum, running_mean, running_var, params,
                   model_dev, optimizer, loader_len, fetched, batch, batch_dev,
                   momenta, num_samples, lr_schedule, epoch, cycle, alpha_1,
                   alpha_2, i_grid, lr, ret, calls, pre, seen, log>>

(* --------------------------------- test -------------------------------- *)
CallTest ==
    /\ pc \in AtRest
    /\ loader_len' \in 0 .. MaxLoopBatches
    /\ fetched' = 0
    /\ log' = <<>>
    /\ pre' = Snapshot
    /\ calls' = calls + 1
    /\ pc' = "test"
    /\ UNCHANGED <<kind, training, momentum, running_mean, running_var, params,
                   model_dev, optimizer, batch, batch_dev, momenta,
                   num_samples, lr_schedule, epoch, cycle, alpha_1, alpha_2,
                   i_grid, lr, ret, seen>>

\* test without model.eval()
TestEnterWithoutEval ==
    /\ pc = "test"
    /\ pc' = "test_loop"
    /\ UNCHANGED <<kind, training, momentum, running_mean, running_var, params,
                   model_dev, optimizer, loader_len, fetched, batch, batch_dev,
                   momenta, num_samples, lr_schedule, epoch, cycle, alpha_1,
                   alpha_2, i_grid, lr, ret, calls, pre, seen, log>>

TestEnter ==
    /\ pc = "test"
    /\ training' = FALSE
    /\ pc' = "test_loop"
    /\ UNCHANGED <<kind, momentum, running_mean, running_var, params,
                   model_dev, optimizer, loader_len, fetched, batch, batch_dev,
                   momenta, num_samples, lr_schedule, epoch, cycle, alpha_1,
                   alpha_2, i_grid, lr, ret, calls, pre, seen, log>>

TestNextBatch ==
    /\ pc = "test_loop"
    /\ fetched < loader_len
    /\ batch' \in LoopBatches
    /\ \E d \in Devices :
          LET moved == TensorTo(d, model_dev)
          IN  batch_dev' = d
    /\ fetched' = fetched + 1
    /\ pc' = "test_forward"
    /\ UNCHANGED <<kind, training, momentum, running_mean, running_var, params,
                   model_dev, optimizer, loader_len, momenta, num_samples,
                   lr_schedule, epoch, cycle, alpha_1, alpha_2, i_grid, lr,
                   ret, calls, pre, seen, log>>

TestForward ==
    /\ pc = "test_forward"
    /\ batch_dev = model_dev
    /\ running_mean' = ForwardMean(batch, NumModules)
    /\ running_var' = ForwardVar(batch, NumModules)
    /\ log' = Append(log, Event("forward", fetched - 1))
    /\ batch' = <<>>
    /\ pc' = "test_loop"
    /\ UNCHANGED <<kind, training, momentum, params, model_dev, optimizer,
                   loader_len, fetched, batch_dev, momenta, num_samples,
                   lr_schedule, epoch, cycle, alpha_1, alpha_2, i_grid, lr,
                   ret, calls, pre, seen>>

TestForwardRaises ==
    /\ pc = "test_forward"
    /\ batch_dev # model_dev
    /\ pc' = "test_raised"
    /\ UNCHANGED <<kind, training, momentum, running_mean, running_var, params,
                   model_dev, optimizer, loader_len, fetched, batch, batch_dev,
                   momenta, num_samples, lr_schedule, epoch, cycle, alpha_1,
                   alpha_2, i_grid, lr, ret, calls, pre, seen, log>>

TestReturn ==
    /\ pc = "test_loop"
    /\ fetched = loader_len
    /\ pc' = "test_returned"
    /\ UNCHANGED <<kind, training, momentum, running_mean, running_var, params,
                   model_dev, optimizer, loader_len, fetched, batch, batch_dev,
                   momenta, num_samples, lr_schedule, epoch, cycle, alpha_1,
                   alpha_2, i_grid, lr, ret, calls, pre, seen, log>>

\* len(test_loader.dataset) is 0: the division of the metrics raises
TestReturnRaises ==
    /\ pc = "test_loop"
    /\ fetched = loader_len
    /\ loader_len = 0
    /\ pc' = "test_raised"
    /\ UNCHANGED <<kind, training, momentum, running_mean, running_var, params,
                   model_dev, optimizer, loader_len, fetched, batch, batch_dev,
                   momenta, num_samples, lr_schedule, epoch, cycle, alpha_1,
                   alpha_2, i_grid, lr, ret, calls, pre, seen, log>>

InitLoop ==
    /\ pc = "idle"
    /\ kind \in [Modules -> Kinds]
    /\ training \in BOOLEAN
    /\ momentum = [m \in Modules |->
                       IF isbatchnorm(m) THEN DefaultMomentum ELSE Zero]
    /\ running_mean = [m \in Modules |-> TrainedMean]
    /\ running_var = [m \in Modules |-> TrainedVar]
    /\ params = 0
    /\ model_dev \in Devices
    /\ optimizer = [g \in 1 .. NumGroups |->
                        [lr |-> Rat(1, 10 * g), weight_decay |-> g]]
    /\ loader_len = 0
    /\ fetched = 0
    /\ batch = <<>>
    /\ batch_dev = "cpu"
    /\ momenta = <<>>
    /\ num_samples = 0
    /\ lr_schedule = "none"
    /\ epoch \in 0 .. 1
    /\ cycle = 2
    /\ alpha_1 = 1
    /\ alpha_2 = 2
    /\ i_grid = 0
    /\ lr = Zero
    /\ ret = Zero
    /\ calls = 0
    /\ pre = Snapshot
    /\ seen = NoSeen
    /\ log = <<>>

NextLoop ==
    \/ AdjustLearningRate
    \/ CallTrain
    \/ TrainEnter
    \/ TrainNextBatch
    \/ TrainMove
    \/ TrainZeroGrad
    \/ TrainForward
    \/ TrainForwardRaises
    \/ TrainBackward
    \/ TrainStep
    \/ TrainReturn
    \/ TrainReturnRaises
    \/ CallTest
    \/ TestEnter
    \/ TestNextBatch
    \/ TestForward
    \/ TestForwardRaises
    \/ TestReturn
    \/ TestReturnRaises

SpecLoop == InitLoop /\ [][NextLoop]_vars

(* ====================== properties of update_bn ======================== *)

\* C1: when update_bn returns normally on a model with a batch-normalization
\* submodule, every such submodule's momentum is the value it had before the
\* call, whatever the replay wrote (also when the loader yields no batch).
C1_MomentumRestored ==
    (pc = "ub_returned" /\ check_bn) =>
        \A m \in Modules :
            isbatchnorm(m) => momentum[m] = pre.momentum[m]

C1_Witness ==
    /\ pc = "ub_returned"
    /\ fetched = 2
    /\ num_samples = 4
    /\ \E m \in Modules : isbatchnorm(m) /\ pre.momentum[m] = Rat(1, 10)

\* C2: when the forward pass of a batch of size b runs, with n the sizes of
\* all earlier batches together, every batch-normalization momentum is
\* b / (n + b) and num_samples is still n; it is n + b once the pass is over.
\* The first batch runs with momentum 1 and batches of size 2 run with
\* 1, 1/2, 1/3, 1/4.
C2_ReplayMomentum ==
    /\ pc = "ub_forward" =>
          /\ \A m \in Modules :
                isbatchnorm(m) =>
                    /\ momentum[m].num * seen.n = momentum[m].den * Len(batch)
                    /\ fetched = 1 => momentum[m] = One
                    /\ (Len(batch) = 2 /\ seen.n = 2 * fetched) =>
                           momentum[m] = [num |-> 1, den |-> fetched]
          /\ num_samples = seen.n - Len(batch)
    /\ pc = "ub_loop" => num_samples = seen.n

C2_Witness ==
    /\ pc = "ub_forward"
    /\ fetched = 4
    /\ seen.n = 8
    /\ \E m \in Modules : isbatchnorm(m) /\ momentum[m] = Rat(1, 4)

ReplayDone == pc = "ub_returned" /\ check_bn /\ num_samples > 0

DatasetMean == Rat(seen.sum, seen.n)
DatasetVarUnbiased ==
    Rat(seen.n * seen.sq - seen.sum * seen.sum, seen.n * (seen.n - 1))
DatasetVarBiased ==
    Rat(seen.n * seen.sq - seen.sum * seen.sum, seen.n * seen.n)

\* C3 as stated: after the replay of a non-empty dataset the running mean and
\* the running variance of every batch-normalization submodule are the sample
\* mean and the sample variance of the whole dataset.
C3_ExactMeanAndVariance ==
    ReplayDone =>
        \A m \in Modules :
            isbatchnorm(m) =>
                /\ running_mean[m] = DatasetMean
                /\ running_var[m] \in {DatasetVarUnbiased, DatasetVarBiased}

\* C3 amended: the running mean is the sample mean of the whole dataset
\* (whatever the order and the partition into batches); the running variance
\* is the average of the batches' variances weighted by batch size.
C3_CumulativeAverage ==
    ReplayDone =>
        \A m \in Modules :
            isbatchnorm(m) =>
                /\ running_mean[m] = DatasetMean
                /\ running_var[m] = RMul(seen.wvar, Rat(1, seen.n))

C3_Witness ==
    /\ ReplayDone
    /\ fetched = 2
    /\ num_samples = 5
    /\ seen.sum = 2

\* C4: on a model without batch-normalization submodule update_bn returns
\* with the mode, the momenta, the running statistics and the parameters
\* untouched and without fetching a batch or running a forward pass.
C4_NoBatchNormNoOp ==
    ~check_bn =>
        /\ pc \in {"update_bn", "ub_returned"}
        /\ training = pre.training
        /\ momentum = pre.momentum
        /\ running_mean = pre.running_mean
        /\ running_var = pre.running_var
        /\ params = pre.params
        /\ fetched = 0
        /\ seen = NoSeen

C4_Witness ==
    /\ pc = "ub_returned"
    /\ ~check_bn
    /\ ~training

\* C10: when the forward pass raises during the replay, update_bn ends with
\* the model in training mode, every batch-normalization momentum at the
\* replay value of the failing batch, and the running mean at the mean of the
\* batches replayed so far (the failing one included or not), or at its reset
\* value when the first batch fails.
C10_RaiseLeavesReplayState ==
    pc = "ub_raised" =>
        /\ training
        /\ \A m \in Modules :
              isbatchnorm(m) =>
                  /\ momentum[m].num * seen.n = momentum[m].den * Len(batch)
                  /\ momenta[m] = pre.momentum[m]
                  /\ \/ running_mean[m] = DatasetMean
                     \/ /\ num_samples = 0
                        /\ running_mean[m] = Zero
                     \/ /\ num_samples > 0
                        /\ running_mean[m] =
                              Rat(seen.sum - SumSeq(batch, Len(batch)),
                                  num_samples)

C10_Witness ==
    /\ pc = "ub_raised"
    /\ fetched = 2
    /\ \E m \in Modules :
          /\ isbatchnorm(m)
          /\ momentum[m] # pre.momentum[m]
          /\ running_mean[m] # DatasetMean

(* ================== properties of cyclic_learning_rate ================= *)

\* t = ((epoch mod cycle) + i) / cycle is 1/2 for i = i_grid / Grid
AtMidpoint == 2 * ((epoch % cycle) * Grid + i_grid) = cycle * Grid

\* C5 as stated: for every epoch and cycle the schedule is alpha_1 at i = 0
\* and in the limit i -> 1 (the value at i_grid = Grid, the schedule being
\* continuous), never exceeds alpha_2 on [0, 1) and is alpha_2 at t = 1/2.
C5_BoundaryAndPeak ==
    pc = "scheduled" =>
        /\ i_grid = 0 => ret = Rat(alpha_1, 1)
        /\ i_grid = Grid => ret = Rat(alpha_1, 1)
        /\ i_grid < Grid => RLeq(ret, Rat(alpha_2, 1))
        /\ AtMidpoint => ret = Rat(alpha_2, 1)

\* C5 amended: the schedule is alpha_1 at i = 0 when epoch mod cycle = 0 and
\* in the limit i -> 1 when epoch mod cycle = cycle - 1; when
\* alpha_1 <= alpha_2 it never exceeds alpha_2 on [0, 1); and it is alpha_2
\* wherever t = 1/2.
C5_TriangularWave ==
    pc = "scheduled" =>
        /\ (i_grid = 0 /\ epoch % cycle = 0) => ret = Rat(alpha_1, 1)
        /\ (i_grid = Grid /\ epoch % cycle = cycle - 1) =>
               ret = Rat(alpha_1, 1)
        /\ (i_grid < Grid /\ alpha_1 <= alpha_2) =>
               RLeq(ret, Rat(alpha_2, 1))
        /\ AtMidpoint => ret = Rat(alpha_2, 1)

C5_Witness ==
    /\ pc = "scheduled"
    /\ cycle = 2
    /\ epoch = 3
    /\ i_grid = 0
    /\ alpha_1 < alpha_2
    /\ ret = Rat(alpha_2, 1)

(* ==================== properties of the loop harness =================== *)

\* C6: in train the input given to the forward pass is on the device of the
\* model's parameters, whatever device the loader produced it on.
C6_InputOnModelDevice ==
    pc = "train_forward" => batch_dev = model_dev

\* C7: test runs every forward pass in evaluation mode and leaves the
\* parameters, the running statistics, the momenta and the learning rates of
\* the optimizer at their values before the call.
C7_TestLeavesStateAlone ==
    /\ pc = "test_forward" => ~training
    /\ pc \in {"test_loop", "test_forward", "test_returned"} =>
          /\ params = pre.params
          /\ running_mean = pre.running_mean
          /\ running_var = pre.running_var
          /\ momentum = pre.momentum
          /\ LrOf(optimizer) = LrOf(pre.optimizer)

C7_Witness ==
    /\ pc = "test_returned"
    /\ pre.training
    /\ check_bn
    /\ fetched = 2
    /\ Len(log) = 2

\* C8: after adjust_learning_rate(optimizer, v) every parameter group has
\* learning rate v, zero and negative values included, v is returned, the
\* other fields of the groups are as before, and a second call with the same
\* v leaves the optimizer as the first call left it.
C8_AdjustLearningRate ==
    pc = "adjusted" =>
        /\ DOMAIN optimizer = DOMAIN pre.optimizer
        /\ \A g \in DOMAIN optimizer :
              /\ optimizer[g].lr = lr
              /\ optimizer[g].weight_decay = pre.optimizer[g].weight_decay
        /\ ret = lr
        /\ (pre.pc = "adjusted" /\ pre.lr = lr) => optimizer = pre.optimizer

C8_Witness ==
    /\ pc = "adjusted"
    /\ pre.pc = "adjusted"
    /\ pre.lr = lr
    /\ lr = Rat(-1, 1)
    /\ \A g \in DOMAIN optimizer : optimizer[g].lr = Rat(-1, 1)

TrainPcs ==
    {"train_loop", "train_move", "train_zero_grad", "train_forward",
     "train_backward", "train_step", "train_returned", "train_raised"}

IsPrefix(a, b) == Len(a) <= Len(b) /\ SubSeq(b, 1, Len(a)) = a

\* the steps train is to perform for batch k of n
ExpectedBatch(k, n) ==
    LET lrs == IF lr_schedule = "none"
               THEN LrOf(pre.optimizer)
               ELSE [g \in DOMAIN optimizer |->
                        schedule(epoch, cycle, alpha_1, alpha_2, Rat(k, n))]
        ev(op) == [op |-> op, i |-> k, lr |-> lrs]
    IN  (IF lr_schedule = "none" THEN <<>> ELSE <<ev("set_lr")>>)
            \o <<ev("zero_grad"), ev("forward"), ev("backward"), ev("step")>>

RECURSIVE ExpectedTrain(_, _)
ExpectedTrain(k, n) ==
    IF k = 0 THEN <<>> ELSE ExpectedTrain(k - 1, n) \o ExpectedBatch(k - 1, n)

\* C9: train sets the training mode before the first batch and performs, for
\* each batch i of num_iters in turn, set-lr to schedule(i / num_iters) (when
\* a schedule is given), zero_grad, forward, backward, step, once each; a
\* completed pass has made num_iters optimizer steps, and without a schedule
\* the learning rates are never changed.
C9_TrainOrder ==
    pc \in TrainPcs =>
        /\ training
        /\ IsPrefix(log, ExpectedTrain(loader_len, loader_len))
        /\ pc = "train_returned" =>
              /\ log = ExpectedTrain(loader_len, loader_len)
              /\ params = pre.params + loader_len
        /\ lr_schedule = "none" => optimizer = pre.optimizer

C9_Witness ==
    /\ pc = "train_returned"
    /\ ~pre.training
    /\ lr_schedule = "cyclic"
    /\ loader_len = 2
    /\ Len(log) = 10
    /\ log[6].lr # log[1].lr

====
